---- MODULE Spec2Model ----
(***************************************************************************)
(* Model of ebpub/db/schemafilters.py: the SchemaFilter variants, the      *)
(* SchemaFilterChain (an ordered, uniquely keyed mapping of filters), its  *)
(* from_request parser/dispatcher, validate, apply and normalized_clone.   *)
(*                                                                         *)
(* Strings are modelled structurally:                                      *)
(*   - an argument name is a pair <<prefix, rest>>, so that                *)
(*     argname.startswith('by-') and argname[3:] are computed;             *)
(*   - a value list 'v1,v2' is the sequence of its comma-separated pieces, *)
(*     each piece a string that may carry leading blanks (Strip removes    *)
(*     them) or be empty;                                                  *)
(*   - an argstring is the sequence of its ';'-separated segments.         *)
(* A queryset is the sequence of the constraints applied to it so far.     *)
(***************************************************************************)
EXTENDS Integers, Sequences, FiniteSets, TLC

\* ------------------------------------------------------------------ bounds
MaxSegs == 2
MaxChain == 3

\* ------------------------------------------------------------- text values
\* A Python attribute holding text: unset (no such attribute), None, or a
\* string given by its pieces.
Unset == [state |-> "unset", toks |-> <<>>]
None == [state |-> "None", toks |-> <<>>]
Str(toks) == [state |-> "str", toks |-> toks]

\* A url attribute: None, unset, or the string 'name=v1,v2,...'.
NoName == <<"", "">>
UrlUnset == [state |-> "unset", name |-> NoName, vals |-> <<>>]
UrlNone == [state |-> "None", name |-> NoName, vals |-> <<>>]
Url(name, vals) == [state |-> "str", name |-> name, vals |-> vals]

\* str.strip() on one comma-separated piece.
Strip(t) ==
  CASE t = " foo" -> "foo"
    [] t = " bar" -> "bar"
    [] t = " yes" -> "yes"
    [] t = " " -> ""
    [] OTHER -> t

\* The piece that follows ', ' in ', '.join(args): the arg with a blank in
\* front of it.
Blank(t) ==
  CASE t = "foo" -> " foo"
    [] t = "bar" -> " bar"
    [] t = "yes" -> " yes"
    [] OTHER -> t

RECURSIVE MapStrip(_)
MapStrip(vals) ==
  IF vals = <<>> THEN <<>> ELSE <<Strip(Head(vals))>> \o MapStrip(Tail(vals))

RECURSIVE NonEmpty(_)
NonEmpty(vals) ==
  IF vals = <<>> THEN <<>>
  ELSE IF Head(vals) = "" THEN NonEmpty(Tail(vals))
       ELSE <<Head(vals)>> \o NonEmpty(Tail(vals))

\* ', '.join(args) as the pieces between the commas.
JoinCommaBlank(args) ==
  [i \in 1..Len(args) |-> IF i = 1 THEN args[i] ELSE Blank(args[i])]

\* ------------------------------------------------- external collaborators
\* The field-metadata registry handed to from_request: slug -> schemafield.
FieldSlugs == {"kind", "cat", "flag", "flag2", "txt", "txt2"}

SchemaField(slug) ==
  CASE slug = "kind" -> [slug |-> "kind", name |-> "kind_n", type |-> "lookup",
                         pretty_name |-> "kind", pretty_name_plural |-> "kinds"]
    [] slug = "cat" -> [slug |-> "cat", name |-> "cat_n", type |-> "lookup",
                        pretty_name |-> "category", pretty_name_plural |-> "categories"]
    [] slug = "flag" -> [slug |-> "flag", name |-> "flag_n", type |-> "bool",
                         pretty_name |-> "flag", pretty_name_plural |-> "flags"]
    [] slug = "flag2" -> [slug |-> "flag2", name |-> "flag2_n", type |-> "bool",
                          pretty_name |-> "arrest", pretty_name_plural |-> "arrests"]
    [] slug = "txt" -> [slug |-> "txt", name |-> "txt_n", type |-> "varchar",
                        pretty_name |-> "title", pretty_name_plural |-> "titles"]
    [] OTHER -> [slug |-> "txt2", name |-> "txt2_n", type |-> "varchar",
                 pretty_name |-> "body", pretty_name_plural |-> "bodies"]

\* models.Lookup rows: the lookup slugs that exist for a field, by name.
LookupsOf(slug) ==
  CASE slug = "kind" -> <<"k1", "k2">>
    [] slug = "cat" -> <<"c1">>
    [] OTHER -> <<>>

SeqRange(s) == {s[i] : i \in 1..Len(s)}

\* models.Location rows that are public, per location type, by display_order.
PublicLocations(type_slug) ==
  CASE type_slug = "zips" -> <<"z1", "z2">>
    [] OTHER -> <<>>

\* datetime.date(*map(int, s.split('-'))): the day number of a date string,
\* 0 when the string is not a date (ValueError / TypeError).
DateOrd(s) ==
  CASE s = "2024-03-01" -> 1
    [] s = "2024-3-1" -> 1
    [] s = "2024-03-02" -> 2
    [] s = "2024-03-03" -> 3
    [] OTHER -> 0

\* date.strftime('%Y-%m-%d')
Strftime(d) ==
  CASE d = 1 -> "2024-03-01"
    [] d = 2 -> "2024-03-02"
    [] d = 3 -> "2024-03-03"
    [] OTHER -> "2024-03-04"

\* dateformat.format(d, 'N j, Y')
DateFormat(d) ==
  CASE d = 1 -> "March 1, 2024"
    [] d = 2 -> "March 2, 2024"
    [] d = 3 -> "March 3, 2024"
    [] OTHER -> "March 4, 2024"

\* re.search('^%s$' % constants.BLOCK_URL_REGEX, block_range).groups():
\* <<from, to, direction>>, or <<>> when the token does not match.
BlockUrlGroups(block_range) ==
  CASE block_range = "100-199" -> <<"100", "199", "">>
    [] block_range = "8" -> <<>>
    [] OTHER -> <<>>

\* '%d-%d' % (block.from_num, block.to_num)
FormatRange(from_num, to_num) ==
  IF from_num = "100" /\ to_num = "199" THEN "100-199" ELSE "0-0"

\* ebpub.db.views.radius_urlfragment
radius_urlfragment(block_radius) == block_radius

\* ebpub.db.views.radius_url(request.path, block_radius_value(request))
radius_url == "request.path + default radius"

\* get_metro()['multiple_cities'] is a setting of the installation: see the
\* variable multiple_cities.

\* context['schema'].date_name
schema_date_name == "Date"

\* ---------------------------------------------------------------- filters
NoAttrName == <<"<no argname attribute>", "">>

\* SchemaFilter.__init__ : the attributes every filter object carries; the
\* variant-specific ones start out absent ("unset").
SchemaFilter__init__(cls, queryset) ==
  [cls |-> cls, sf |-> "None", name |-> "unset", argname |-> NoAttrName,
   got_args |-> "unset",
   label |-> Unset, value |-> Unset, short_value |-> Unset, url |-> UrlUnset,
   qs |-> queryset,
   start_date |-> 0, end_date |-> 0, kw_field |-> "unset", kw_gte |-> 0, kw_lt |-> 0,
   query |-> <<>>, boolslug |-> "unset", real_val |-> "unset", look |-> "unset",
   location_type_slug |-> "unset", loc_name |-> "unset",
   city_slug |-> "unset", street_slug |-> "unset", block_range |-> "unset",
   block_radius |-> "unset", url_to_block_args |-> <<>>,
   location_name |-> Unset]

NoFilter == SchemaFilter__init__("none", <<>>)

\* The outcome of a constructor: the filter, or the exception it raised.
Built(f) == [exc |-> "none", msg |-> "", url |-> "None", filt |-> f]
Raised(exc, msg, url) == [exc |-> exc, msg |-> msg, url |-> url, filt |-> NoFilter]

\* The class attribute _sort_value.
_sort_value(cls) ==
  CASE cls = "DateFilter" -> 1
    [] cls = "PubDateFilter" -> 1
    [] cls = "BoolFilter" -> 100
    [] cls = "LocationFilter" -> 200
    [] cls = "BlockFilter" -> 200
    [] cls = "LookupFilter" -> 900
    [] cls = "TextSearchFilter" -> 1000
    [] OTHER -> 100

AttributeFilter__init__(cls, queryset, slug) ==
  LET sf == SchemaField(slug) IN
  [SchemaFilter__init__(cls, queryset) EXCEPT
     !.sf = slug, !.name = sf.name, !.argname = <<"by-", sf.name>>,
     !.url = UrlNone, !.value = Str(<<>>), !.short_value = Str(<<>>),
     !.label = Str(<<sf.pretty_name>>)]

TextSearchFilter__init__(queryset, args, slug) ==
  LET base == AttributeFilter__init__("TextSearchFilter", queryset, slug)
      q == JoinCommaBlank(args) IN
  IF args = <<>> THEN Raised("FilterError", "Text search lookup requires search params", "None")
  ELSE Built([base EXCEPT !.query = q, !.short_value = Str(q), !.value = Str(q),
                          !.url = Url(<<"by-", slug>>, q)])

BoolRealVal(boolslug) ==
  CASE boolslug = "yes" -> "True"
    [] boolslug = "no" -> "False"
    [] boolslug = "na" -> "None"
    [] OTHER -> "KeyError"

BoolFilter__init__(queryset, args, slug) ==
  LET base == [AttributeFilter__init__("BoolFilter", queryset, slug) EXCEPT !.label = None] IN
  IF Len(args) > 1 THEN Raised("FilterError", "Invalid boolean arg", "None")
  ELSE IF Len(args) = 1 THEN
    IF BoolRealVal(args[1]) = "KeyError"
    THEN Raised("FilterError", "Invalid boolean value", "None")
    ELSE Built([base EXCEPT !.boolslug = args[1], !.real_val = BoolRealVal(args[1]),
                            !.got_args = "True"])
  ELSE Built([base EXCEPT
                !.value = Str(<<"By ", "whether they ", SchemaField(slug).pretty_name_plural>>),
                !.got_args = "False"])

\* LookupFilter.__init__ that insists on its value, as TextSearchFilter does.
LookupFilterStrict(queryset, args, slug) ==
  LET base == AttributeFilter__init__("LookupFilter", queryset, slug) IN
  IF args = <<>> \/ args[1] \notin SeqRange(LookupsOf(slug))
  THEN Raised("FilterError", "No such lookup", "None")
  ELSE Built([base EXCEPT !.got_args = "True", !.look = args[1],
                          !.value = Str(<<args[1], " name">>),
                          !.short_value = Str(<<args[1], " name">>),
                          !.url = Url(<<"by-", slug>>, <<args[1]>>)])

LookupFilter__init__(queryset, args, slug) ==
  LET base == AttributeFilter__init__("LookupFilter", queryset, slug) IN
  IF args = <<>> THEN Built([base EXCEPT !.got_args = "False", !.look = "None"])
  ELSE IF args[1] \notin SeqRange(LookupsOf(slug))
       THEN Raised("FilterError", "No such lookup", "None")
       ELSE Built([base EXCEPT !.got_args = "True", !.look = args[1],
                               !.value = Str(<<args[1], " name">>),
                               !.short_value = Str(<<args[1], " name">>),
                               !.url = Url(<<"by-", slug>>, <<args[1]>>)])

LocationFilter__init__(queryset, args) ==
  LET base == [SchemaFilter__init__("LocationFilter", queryset) EXCEPT
                 !.name = "location", !.argname = <<"locations", "">>] IN
  IF args = <<>> THEN Raised("FilterError", "not enough args", "None")
  ELSE IF Len(args) >= 2
       THEN Built([base EXCEPT !.location_type_slug = args[1], !.loc_name = args[2],
                               !.got_args = "True"])
       ELSE Built([base EXCEPT !.location_type_slug = args[1], !.got_args = "False"])

\* BlockFilter.__init__ with the radius popped inside the first try block.
BlockFilterOneTry(queryset, args, multi) ==
  LET base == [SchemaFilter__init__("BlockFilter", queryset) EXCEPT !.name = "location"]
      need == IF multi THEN 3 ELSE 2
      rest == IF multi THEN Tail(args) ELSE args
      city == IF multi THEN args[1] ELSE ""
  IN
  IF Len(args) < need THEN Raised("FilterError", "not enough args", "None")
  ELSE IF Len(rest) < 3 THEN Raised("FilterError", "not enough args", "None")
  ELSE IF BlockUrlGroups(rest[2]) = <<>>
       THEN Raised("FilterError", "Invalid block URL", "None")
       ELSE Built([base EXCEPT !.city_slug = city, !.street_slug = rest[1],
                               !.block_range = rest[2], !.block_radius = rest[3],
                               !.url_to_block_args = BlockUrlGroups(rest[2])])

BlockFilter__init__(queryset, args, multi) ==
  LET base == [SchemaFilter__init__("BlockFilter", queryset) EXCEPT !.name = "location"]
      need == IF multi THEN 3 ELSE 2
      rest == IF multi THEN Tail(args) ELSE args
      city == IF multi THEN args[1] ELSE ""
  IN
  IF Len(args) < need THEN Raised("FilterError", "not enough args", "None")
  ELSE IF Len(rest) < 3 THEN Raised("FilterError", "missing radius", radius_url)
  ELSE IF BlockUrlGroups(rest[2]) = <<>>
       THEN Raised("FilterError", "Invalid block URL", "None")
       ELSE Built([base EXCEPT !.city_slug = city, !.street_slug = rest[1],
                               !.block_range = rest[2], !.block_radius = rest[3],
                               !.url_to_block_args = BlockUrlGroups(rest[2])])

\* DateFilter.__init__ without the timedelta(days=1): the end date itself is
\* the exclusive upper bound.
DateFilterExclusive(cls, queryset, args) ==
  LET pub == (cls = "PubDateFilter")
      field == IF pub THEN "pub_date" ELSE "item_date"
      aname == IF pub THEN <<"by-", "pub-date">> ELSE <<"by-", "date">>
      base == [SchemaFilter__init__(cls, queryset) EXCEPT
                 !.name = "date", !.argname = aname, !.label = Str(<<schema_date_name>>)]
  IN
  IF Len(args) # 2 \/ DateOrd(args[1]) = 0 \/ DateOrd(args[2]) = 0
  THEN Raised("FilterError", "Missing or invalid date range", "None")
  ELSE LET s == DateOrd(args[1])
           e == DateOrd(args[2])
       IN Built([base EXCEPT
            !.start_date = s, !.end_date = e,
            !.kw_field = field, !.kw_gte = s, !.kw_lt = e,
            !.value = IF s = e THEN Str(<<DateFormat(s)>>)
                      ELSE Str(<<DateFormat(s), " - ", DateFormat(e)>>),
            !.short_value = IF s = e THEN Str(<<DateFormat(s)>>)
                            ELSE Str(<<DateFormat(s), " - ", DateFormat(e)>>),
            !.url = Url(aname, <<Strftime(s), Strftime(e)>>),
            !.label = IF pub THEN Str(<<"date published">>) ELSE Str(<<schema_date_name>>)])

DateFilter__init__(cls, queryset, args) ==
  LET pub == (cls = "PubDateFilter")
      field == IF pub THEN "pub_date" ELSE "item_date"
      aname == IF pub THEN <<"by-", "pub-date">> ELSE <<"by-", "date">>
      base == [SchemaFilter__init__(cls, queryset) EXCEPT
                 !.name = "date", !.argname = aname, !.label = Str(<<schema_date_name>>)]
  IN
  IF Len(args) # 2 \/ DateOrd(args[1]) = 0 \/ DateOrd(args[2]) = 0
  THEN Raised("FilterError", "Missing or invalid date range", "None")
  ELSE LET s == DateOrd(args[1])
           e == DateOrd(args[2])
       IN Built([base EXCEPT
            !.start_date = s, !.end_date = e,
            !.kw_field = field, !.kw_gte = s, !.kw_lt = e + 1,
            !.value = IF s = e THEN Str(<<DateFormat(s)>>)
                      ELSE Str(<<DateFormat(s), " - ", DateFormat(e)>>),
            !.short_value = IF s = e THEN Str(<<DateFormat(s)>>)
                            ELSE Str(<<DateFormat(s), " - ", DateFormat(e)>>),
            !.url = Url(aname, <<Strftime(s), Strftime(e)>>),
            !.label = IF pub THEN Str(<<"date published">>) ELSE Str(<<schema_date_name>>)])

\* ------------------------------------------------------ SchemaFilterChain
\* A chain is the sequence of its (key, filter) items in key order.
Item(key, filt) == [key |-> key, filt |-> filt]

Keys(chain) == [i \in 1..Len(chain) |-> chain[i].key]

has_key(chain, key) == \E i \in 1..Len(chain) : chain[i].key = key

\* The attributes SchemaFilterChain.__init__ gives a chain besides those of
\* SortedDict: none, so chain.lookup_descriptions does not exist.
has_lookup_descriptions == FALSE

\* SchemaFilterChain.__setitem__
SetItemRaise(chain, key, value) ==
  [exc |-> "DuplicateFilterError", msg |-> key, chain |-> chain]

SetItemStore(chain, key, value) ==
  [exc |-> "none", msg |-> "", chain |-> Append(chain, Item(key, value))]

\* __setitem__ without the has_key test: SortedDict's own overwrite.
SetItemOverwrite(chain, key, value) ==
  IF has_key(chain, key)
  THEN [exc |-> "none", msg |-> "",
        chain |-> [i \in 1..Len(chain) |->
                     IF chain[i].key = key THEN Item(key, value) ELSE chain[i]]]
  ELSE SetItemStore(chain, key, value)

__setitem__(chain, key, value) ==
  IF has_key(chain, key) THEN SetItemRaise(chain, key, value)
  ELSE SetItemStore(chain, key, value)

\* SortedDict.__delitem__
RECURSIVE __delitem__(_, _)
__delitem__(chain, key) ==
  IF chain = <<>> THEN <<>>
  ELSE IF Head(chain).key = key THEN Tail(chain)
       ELSE <<Head(chain)>> \o __delitem__(Tail(chain), key)

\* ------------------------------------------------------------ from_request
\* One ';'-separated segment of the argstring: 'name=v1,v2' (eq) or a text
\* without an equals sign.
Seg(name, vals) == [name |-> name, eq |-> TRUE, vals |-> vals]
NoEq(text) == [name |-> <<text, "">>, eq |-> FALSE, vals |-> <<>>]
EmptySeg == NoEq("")

\* ''.split(';') is [''], so the empty argstring is the one empty segment;
\* the sentinel 'filter' is the one segment 'filter'.
EmptyArgstring == <<EmptySeg>>
SentinelArgstring == <<NoEq("filter")>>

\* Lines 492-504: the (argname, argvalues) pairs of the argstring, or the
\* error of the first segment that has no equals sign. The segments are
\* those of the unquoted argstring (line 486-487); argument names carry no
\* blanks to strip.
RECURSIVE ParseSegments(_)
ParseSegments(segs) ==
  IF segs = <<>> THEN [exc |-> "none", msg |-> "", args |-> <<>>]
  ELSE IF ~Head(segs).eq
       THEN [exc |-> "FilterError", msg |-> "Invalid filter parameter, no equals sign",
             args |-> <<>>]
       ELSE LET rest == ParseSegments(Tail(segs))
                pair == [argname |-> Head(segs).name,
                         argvalues |-> MapStrip(Head(segs).vals)]
            IN IF rest.exc # "none" THEN rest
               ELSE IF Head(segs).name = NoName THEN rest
               ELSE [rest EXCEPT !.args = <<pair>> \o rest.args]

ParseArgstring(argstring) ==
  IF argstring # EmptyArgstring /\ argstring # SentinelArgstring
  THEN ParseSegments(argstring)
  ELSE [exc |-> "none", msg |-> "", args |-> <<>>]

\* The state from_request leaves: the exception (or "none"), the chain it
\* built so far (also context['filters']), the registry after the pops, and
\* how many (argname, argvalues) pairs were taken from the list, and the pair
\* in hand when it raised.
NoPair == [argname |-> NoName, argvalues |-> <<>>]

FromState(exc, msg, url, chain, reg, n, at) ==
  [exc |-> exc, msg |-> msg, url |-> url, chain |-> chain, registry |-> reg,
   taken |-> n, at |-> at]

\* The key a filter built by from_request is stored under.
KeyOf(f) ==
  CASE f.cls \in {"DateFilter", "PubDateFilter"} -> "date"
    [] f.cls = "BoolFilter" -> "lookup"
    [] f.cls \in {"LocationFilter", "BlockFilter"} -> "location"
    [] OTHER -> SchemaField(f.sf).name

\* The dispatch with the 'by-' prefix tested before the two date names.
ConstructPrefixFirst(argname, argvalues, qs, multi) ==
  IF argname[1] = "by-" THEN
    IF argname[2] \notin FieldSlugs THEN Raised("FilterError", "Invalid SchemaField slug", "None")
    ELSE IF SchemaField(argname[2]).type = "lookup"
         THEN LookupFilter__init__(qs, argvalues, argname[2])
    ELSE IF SchemaField(argname[2]).type = "bool"
         THEN BoolFilter__init__(qs, argvalues, argname[2])
    ELSE TextSearchFilter__init__(qs, argvalues, argname[2])
  ELSE IF argname = <<"by-", "date">> THEN DateFilter__init__("DateFilter", qs, argvalues)
  ELSE IF argname = <<"by-", "pub-date">> THEN DateFilter__init__("PubDateFilter", qs, argvalues)
  ELSE IF argname[1] = "streets" THEN BlockFilter__init__(qs, argvalues, multi)
  ELSE IF argname[1] = "locations" THEN LocationFilter__init__(qs, argvalues)
  ELSE Raised("FilterError", "Invalid filter type", "None")

\* Lines 511-555: the constructor call one (argname, argvalues) pair is
\* dispatched to, for a field slug that is in the registry.
Construct(argname, argvalues, qs, multi) ==
  IF argname = <<"by-", "date">> THEN DateFilter__init__("DateFilter", qs, argvalues)
  ELSE IF argname = <<"by-", "pub-date">> THEN DateFilter__init__("PubDateFilter", qs, argvalues)
  ELSE IF argname[1] = "by-" THEN
    IF argname[2] \notin FieldSlugs THEN Raised("FilterError", "Invalid SchemaField slug", "None")
    ELSE IF SchemaField(argname[2]).type = "lookup"
         THEN LookupFilter__init__(qs, argvalues, argname[2])
    ELSE IF SchemaField(argname[2]).type = "bool"
         THEN BoolFilter__init__(qs, argvalues, argname[2])
    ELSE TextSearchFilter__init__(qs, argvalues, argname[2])
  ELSE IF argname[1] = "streets" THEN BlockFilter__init__(qs, argvalues, multi)
  ELSE IF argname[1] = "locations" THEN LocationFilter__init__(qs, argvalues)
  ELSE Raised("FilterError", "Invalid filter type", "None")

\* The dispatch loop with filter_sf_dict[sf_slug] in place of the pop: the
\* registry keeps its entries.
RECURSIVE DispatchLoopNoPop(_, _, _, _, _, _)
DispatchLoopNoPop(args, chain, reg, qs, multi, n) ==
  IF args = <<>> THEN FromState("none", "", "None", chain, reg, n, NoPair)
  ELSE
    LET argname == Head(args).argname
        argvalues == NonEmpty(Head(args).argvalues)
        isField == argname[1] = "by-" /\ argname[2] \notin {"date", "pub-date"}
        reg2 == reg
        built == Construct(argname, argvalues, qs, multi)
    IN
    IF isField /\ argname[2] \notin reg
    THEN FromState("FilterError", "Invalid SchemaField slug", "None", chain, reg, n + 1, Head(args))
    ELSE IF built.exc # "none"
    THEN FromState(built.exc, built.msg, built.url, chain, reg2, n + 1, Head(args))
    ELSE
      LET set == __setitem__(chain, KeyOf(built.filt), built.filt) IN
      IF set.exc # "none"
      THEN FromState(set.exc, set.msg, "None", chain, reg2, n + 1, Head(args))
      ELSE IF built.filt.cls = "LookupFilter" /\ built.filt.look # "None"
              /\ ~has_lookup_descriptions
      THEN FromState("AttributeError", "lookup_descriptions", "None", set.chain, reg2, n + 1,
                     Head(args))
      ELSE DispatchLoopNoPop(Tail(args), set.chain, reg2, qs, multi, n + 1)

\* Lines 507-557: the dispatch loop.
RECURSIVE DispatchLoop(_, _, _, _, _, _)
DispatchLoop(args, chain, reg, qs, multi, n) ==
  IF args = <<>> THEN FromState("none", "", "None", chain, reg, n, NoPair)
  ELSE
    LET argname == Head(args).argname
        argvalues == NonEmpty(Head(args).argvalues)
        isField == argname[1] = "by-" /\ argname[2] \notin {"date", "pub-date"}
        reg2 == IF isField THEN reg \ {argname[2]} ELSE reg
        built == Construct(argname, argvalues, qs, multi)
    IN
    IF isField /\ argname[2] \notin reg
    THEN FromState("FilterError", "Invalid SchemaField slug", "None", chain, reg, n + 1, Head(args))
    ELSE IF built.exc # "none"
    THEN FromState(built.exc, built.msg, built.url, chain, reg2, n + 1, Head(args))
    ELSE
      LET set == __setitem__(chain, KeyOf(built.filt), built.filt) IN
      IF set.exc # "none"
      THEN FromState(set.exc, set.msg, "None", chain, reg2, n + 1, Head(args))
      ELSE IF built.filt.cls = "LookupFilter" /\ built.filt.look # "None"
              /\ ~has_lookup_descriptions
      THEN FromState("AttributeError", "lookup_descriptions", "None", set.chain, reg2, n + 1,
                     Head(args))
      ELSE DispatchLoop(Tail(args), set.chain, reg2, qs, multi, n + 1)

\* from_request with one loop: each segment is split and dispatched before
\* the next segment is looked at.
RECURSIVE InterleavedLoop(_, _, _, _, _, _)
InterleavedLoop(segs, chain, reg, qs, multi, n) ==
  IF segs = <<>> THEN FromState("none", "", "None", chain, reg, n, NoPair)
  ELSE IF ~Head(segs).eq
  THEN FromState("FilterError", "Invalid filter parameter, no equals sign", "None",
                 chain, reg, n, NoPair)
  ELSE IF Head(segs).name = NoName
  THEN InterleavedLoop(Tail(segs), chain, reg, qs, multi, n)
  ELSE LET pair == [argname |-> Head(segs).name,
                    argvalues |-> MapStrip(Head(segs).vals)]
           one == DispatchLoop(<<pair>>, chain, reg, qs, multi, n)
       IN IF one.exc # "none" THEN one
          ELSE InterleavedLoop(Tail(segs), one.chain, one.registry, qs, multi, n + 1)

FromRequestInterleaved(argstring, reg, qs, multi) ==
  IF argstring # EmptyArgstring /\ argstring # SentinelArgstring
  THEN InterleavedLoop(argstring, <<>>, reg, qs, multi, 0)
  ELSE FromState("none", "", "None", <<>>, reg, 0, NoPair)

from_request(argstring, reg, qs, multi) ==
  LET parsed == ParseArgstring(argstring) IN
  IF parsed.exc # "none"
  THEN FromState(parsed.exc, parsed.msg, "None", <<>>, reg, 0, NoPair)
  ELSE DispatchLoop(parsed.args, <<>>, reg, qs, multi, 0)

\* ---------------------------------------------------------------- validate
\* The dict a validate() returns: {} (empty) or the needs-more-input
\* descriptor.
NoDescriptor ==
  [empty |-> TRUE, filter_argname |-> NoName, lookup_type |-> <<>>,
   lookup_type_slug |-> "", lookup_list |-> <<>>]

Descriptor(argname, type, slug, list) ==
  [empty |-> FALSE, filter_argname |-> argname, lookup_type |-> type,
   lookup_type_slug |-> slug, lookup_list |-> list]

Candidate(slug, name) == [slug |-> slug, name |-> name]

BoolLookupList == <<Candidate("yes", "Yes"), Candidate("no", "No"), Candidate("na", "N/A")>>

Returned(desc) == [exc |-> "none", msg |-> "", desc |-> desc]

BoolFilter_validate(f) ==
  IF f.got_args = "True" THEN Returned(NoDescriptor)
  ELSE Returned(Descriptor(f.argname, Tail(f.value.toks), f.sf, BoolLookupList))

LookupFilter_validate(f) ==
  IF f.got_args = "True" THEN Returned(NoDescriptor)
  ELSE Returned(Descriptor(f.argname, <<SchemaField(f.sf).pretty_name>>, f.sf,
                  [i \in 1..Len(LookupsOf(f.sf)) |->
                     Candidate(LookupsOf(f.sf)[i], LookupsOf(f.sf)[i])]))

\* LocationFilter.validate without the 'if not lookup_list' test.
LocationValidateNoCheck(f) ==
  LET lookup_list == PublicLocations(f.location_type_slug) IN
  IF f.got_args = "True" THEN Returned(NoDescriptor)
  ELSE Returned(Descriptor(f.argname, <<f.location_type_slug, " type name">>,
                  f.location_type_slug,
                  [i \in 1..Len(lookup_list) |->
                     Candidate(lookup_list[i], lookup_list[i])]))

LocationFilter_validate(f) ==
  LET lookup_list == PublicLocations(f.location_type_slug) IN
  IF f.got_args = "True" THEN Returned(NoDescriptor)
  ELSE IF lookup_list = <<>>
       THEN [exc |-> "FilterError", msg |-> "empty lookup list", desc |-> NoDescriptor]
       ELSE Returned(Descriptor(f.argname, <<f.location_type_slug, " type name">>,
                       f.location_type_slug,
                       [i \in 1..Len(lookup_list) |->
                          Candidate(lookup_list[i], lookup_list[i])]))

\* filt.validate(), by class; text-search, block and date filters return {}.
Filter_validate(f) ==
  CASE f.cls = "BoolFilter" -> BoolFilter_validate(f)
    [] f.cls = "LookupFilter" -> LookupFilter_validate(f)
    [] f.cls = "LocationFilter" -> LocationFilter_validate(f)
    [] OTHER -> Returned(NoDescriptor)

\* The outcome of SchemaFilterChain.validate: what it returned or raised,
\* the chain afterwards, and how many filters had validate() called.
ValidateState(exc, msg, desc, chain, visited) ==
  [exc |-> exc, msg |-> msg, desc |-> desc, chain |-> chain, visited |-> visited]

\* Lines 569-574: the filter that needs more input is stored again under
\* 'lookup' and its own key is deleted.
Rekey(chain, key, filt, more_needed, i) ==
  LET set == __setitem__(chain, "lookup", filt) IN
  IF set.exc # "none"
  THEN ValidateState(set.exc, set.msg, NoDescriptor, chain, i)
  ELSE ValidateState("none", "", more_needed, __delitem__(set.chain, key), i)

RECURSIVE ValidateLoop(_, _)
ValidateLoop(chain, i) ==
  IF i > Len(chain) THEN ValidateState("none", "", NoDescriptor, chain, Len(chain))
  ELSE
    LET filt == chain[i].filt
        r == Filter_validate(filt)
    IN
    IF r.exc # "none" THEN ValidateState(r.exc, r.msg, NoDescriptor, chain, i)
    ELSE IF ~r.desc.empty
    THEN IF filt.argname[1] = "by-"
         THEN Rekey(chain, chain[i].key, filt, r.desc, i)
         ELSE ValidateState("none", "", r.desc, chain, i)
    ELSE ValidateLoop(chain, i + 1)

validate(chain) == ValidateLoop(chain, 1)

\* ------------------------------------------------------------------ apply
\* One constraint put on a queryset.
Constraint(op, target, arg, lo, hi) ==
  [op |-> op, target |-> target, arg |-> arg, lo |-> lo, hi |-> hi]

\* The places get_place_info_for_request can resolve.
KnownLocations(type_slug) ==
  CASE type_slug = "zips" -> {"z1", "z2", "z9"}
    [] OTHER -> {}

KnownStreets(city_slug) ==
  CASE city_slug = "" -> {"main"}
    [] city_slug = "metro" -> {"main"}
    [] OTHER -> {}

\* The outcome of one filter's apply(): the filter afterwards, the shared
\* context afterwards, or the exception raised.
Applied(f, ctx) == [exc |-> "none", msg |-> "", filt |-> f, context |-> ctx]
ApplyRaised(exc, msg, f, ctx) == [exc |-> exc, msg |-> msg, filt |-> f, context |-> ctx]

TextSearchFilter_apply(f, ctx) ==
  Applied([f EXCEPT !.qs = Append(f.qs, Constraint("text_search", f.sf, f.query, 0, 0))], ctx)

\* BoolFilter.apply that only narrows the queryset.
BoolFilterApplyBare(f, ctx) ==
  IF f.real_val = "unset" THEN ApplyRaised("AttributeError", "real_val", f, ctx)
  ELSE Applied([f EXCEPT
         !.qs = Append(f.qs, Constraint("by_attribute", f.sf, <<f.real_val>>, 0, 0))], ctx)

BoolFilter_apply(f, ctx) ==
  LET sf == SchemaField(f.sf)
      short == CASE f.real_val = "True" -> "Yes"
                 [] f.real_val = "False" -> "No"
                 [] OTHER -> "N/A"
  IN
  IF f.real_val = "unset" THEN ApplyRaised("AttributeError", "real_val", f, ctx)
  ELSE Applied([f EXCEPT
         !.qs = Append(f.qs, Constraint("by_attribute", f.sf, <<f.real_val>>, 0, 0)),
         !.label = Str(<<sf.pretty_name>>),
         !.short_value = Str(<<short>>),
         !.value = Str(<<"Upper", sf.pretty_name, ": ", short>>),
         !.url = Url(<<"by-", sf.slug>>, <<f.boolslug>>)], ctx)

\* LookupFilter.apply that leaves the queryset alone when it has no lookup.
LookupFilterApplyUnconstrained(f, ctx) ==
  IF f.look = "None" THEN Applied(f, ctx)
  ELSE Applied([f EXCEPT
         !.qs = Append(f.qs, Constraint("by_attribute", f.sf, <<f.look>>, 0, 0))], ctx)

LookupFilter_apply(f, ctx) ==
  IF f.look = "None" THEN ApplyRaised("AttributeError", "NoneType has no id", f, ctx)
  ELSE Applied([f EXCEPT
         !.qs = Append(f.qs, Constraint("by_attribute", f.sf, <<f.look>>, 0, 0))], ctx)

\* get_place_info_for_request(request, *args, place_type=..., newsitem_qs=qs):
\* the dict it returns (the place and the queryset narrowed to it), or the
\* error for a place it cannot resolve.
get_place_info_for_request(place_type, args, newsitem_qs) ==
  LET known == IF place_type = "location" THEN args[2] \in KnownLocations(args[1])
               ELSE args[2] \in KnownStreets(args[1])
  IN IF known
     THEN [exc |-> "none", place |-> <<place_type>> \o args,
           newsitem_qs |-> Append(newsitem_qs, Constraint("place", place_type, args, 0, 0))]
     ELSE [exc |-> "Http404", place |-> <<>>, newsitem_qs |-> newsitem_qs]

\* context.update(info)
context_update(ctx, info) ==
  [ctx EXCEPT !.place = info.place, !.newsitem_qs = info.newsitem_qs]

LocationFilter_apply(f, ctx) ==
  IF f.loc_name = "unset" THEN ApplyRaised("AttributeError", "loc_name", f, ctx)
  ELSE
    LET info == get_place_info_for_request("location",
                                           <<f.location_type_slug, f.loc_name>>, f.qs)
        ctx2 == context_update(ctx, info)
    IN
    IF info.exc # "none" THEN ApplyRaised(info.exc, "no such place", f, ctx)
    ELSE Applied([f EXCEPT
         !.qs = ctx2.newsitem_qs,
         !.label = Str(<<f.location_type_slug, " type name">>),
         !.short_value = Str(<<f.loc_name, " name">>),
         !.value = Str(<<f.loc_name, " name">>),
         !.url = Url(<<"locations", "">>, <<f.location_type_slug, f.loc_name>>),
         !.location_name = Str(<<f.loc_name, " name">>)], ctx2)

BlockFilter_apply(f, ctx) ==
  LET a == f.url_to_block_args
      info == get_place_info_for_request("block", <<f.city_slug, f.street_slug>> \o a, f.qs)
      ctx2 == context_update(ctx, info)
      value == <<f.block_radius,
                 IF f.block_radius # "1" THEN " blocks around " ELSE " block around ",
                 f.street_slug, " pretty name">>
  IN
  IF info.exc # "none" THEN ApplyRaised(info.exc, "no such place", f, ctx)
  ELSE Applied([f EXCEPT
         !.qs = ctx2.newsitem_qs,
         !.label = Str(<<"Area">>),
         !.short_value = Str(value),
         !.value = Str(value),
         !.url = Url(<<"streets", "">>,
                     <<f.street_slug, FormatRange(a[1], a[2]),
                       radius_urlfragment(f.block_radius)>>),
         !.location_name = Str(<<f.street_slug, " pretty name">>)], ctx2)

DateFilter_apply(f, ctx) ==
  Applied([f EXCEPT
     !.qs = Append(f.qs, Constraint("filter", f.kw_field, <<>>, f.kw_gte, f.kw_lt))], ctx)

\* filt.apply(), by class.
Filter_apply(f, ctx) ==
  CASE f.cls = "TextSearchFilter" -> TextSearchFilter_apply(f, ctx)
    [] f.cls = "BoolFilter" -> BoolFilter_apply(f, ctx)
    [] f.cls = "LookupFilter" -> LookupFilter_apply(f, ctx)
    [] f.cls = "LocationFilter" -> LocationFilter_apply(f, ctx)
    [] f.cls = "BlockFilter" -> BlockFilter_apply(f, ctx)
    [] OTHER -> DateFilter_apply(f, ctx)

\* One call of filt.apply() as SchemaFilterChain.apply saw it.
Call(key, qs_in, qs_out, exc) ==
  [key |-> key, qs_in |-> qs_in, qs_out |-> qs_out, exc |-> exc]

\* The outcome of SchemaFilterChain.apply: the queryset returned (when exc
\* is "none"), the chain and context afterwards, and the calls made.
ApplyState(exc, msg, chain, ctx, queryset, calls) ==
  [exc |-> exc, msg |-> msg, chain |-> chain, context |-> ctx,
   queryset |-> queryset, calls |-> calls]

\* The iteration without line 583: the filter keeps the queryset it was
\* built with.
ApplyStepStale(item, ctx, queryset) == Filter_apply(item.filt, ctx)

\* Lines 583-585: one iteration of the loop.
ApplyStep(item, ctx, queryset) ==
  Filter_apply([item.filt EXCEPT !.qs = queryset], ctx)

\* The loop with a failing filter swallowed and skipped.
RECURSIVE ApplyLoopSkip(_, _, _, _, _)
ApplyLoopSkip(chain, i, ctx, queryset, calls) ==
  IF i > Len(chain) THEN ApplyState("none", "", chain, ctx, queryset, calls)
  ELSE
    LET r == ApplyStep(chain[i], ctx, queryset)
        chain2 == [chain EXCEPT ![i].filt = r.filt]
    IN
    IF r.exc # "none"
    THEN ApplyLoopSkip(chain2, i + 1, ctx, queryset, calls)
    ELSE ApplyLoopSkip(chain2, i + 1, r.context, r.filt.qs,
                       Append(calls, Call(chain[i].key, queryset, r.filt.qs, "none")))

RECURSIVE ApplyLoop(_, _, _, _, _)
ApplyLoop(chain, i, ctx, queryset, calls) ==
  IF i > Len(chain) THEN ApplyState("none", "", chain, ctx, queryset, calls)
  ELSE
    LET r == ApplyStep(chain[i], ctx, queryset)
        chain2 == [chain EXCEPT ![i].filt = r.filt]
    IN
    IF r.exc # "none"
    THEN ApplyState(r.exc, r.msg, chain2, r.context, queryset,
                    Append(calls, Call(chain[i].key, queryset, queryset, r.exc)))
    ELSE ApplyLoop(chain2, i + 1, r.context, r.filt.qs,
                   Append(calls, Call(chain[i].key, queryset, r.filt.qs, "none")))

\* apply() that deletes the filter whose apply() raised from the chain.
ApplyDropsFailed(chain, ctx, queryset) ==
  LET r == ApplyLoop(chain, 1, ctx, queryset, <<>>)
      k == Len(r.calls)
  IN IF r.exc = "none" THEN r
     ELSE [r EXCEPT !.chain = SubSeq(r.chain, 1, k - 1) \o SubSeq(r.chain, k + 1, Len(r.chain))]

apply(chain, ctx, queryset) == ApplyLoop(chain, 1, ctx, queryset, <<>>)

\* ------------------------------------------------------- normalized_clone
\* sorted(items, key=_sort_value): a stable insertion sort.
\* An insertion that puts an item before its equals: an unstable sort.
RECURSIVE InsertBeforeEquals(_, _)
InsertBeforeEquals(sorted, item) ==
  IF sorted = <<>> THEN <<item>>
  ELSE IF _sort_value(item.filt.cls) <= _sort_value(Head(sorted).filt.cls)
       THEN <<item>> \o sorted
       ELSE <<Head(sorted)>> \o InsertBeforeEquals(Tail(sorted), item)

RECURSIVE InsertSorted(_, _)
InsertSorted(sorted, item) ==
  IF sorted = <<>> THEN <<item>>
  ELSE IF _sort_value(item.filt.cls) < _sort_value(Head(sorted).filt.cls)
       THEN <<item>> \o sorted
       ELSE <<Head(sorted)>> \o InsertSorted(Tail(sorted), item)

RECURSIVE SortFrom(_, _)
SortFrom(items, sorted) ==
  IF items = <<>> THEN sorted
  ELSE SortFrom(Tail(items), InsertSorted(sorted, Head(items)))

\* items() handed on as they are, not sorted.
UnsortedItems(chain) == chain

_sorted_items(chain) == SortFrom(chain, <<>>)

\* SchemaFilterChain.__init__(data) for a list: one __setitem__ per pair.
RECURSIVE SchemaFilterChain__init__(_, _)
SchemaFilterChain__init__(data, chain) ==
  IF data = <<>> THEN [exc |-> "none", msg |-> "", chain |-> chain]
  ELSE LET set == __setitem__(chain, Head(data).key, Head(data).filt) IN
       IF set.exc # "none" THEN set
       ELSE SchemaFilterChain__init__(Tail(data), set.chain)

normalized_clone(chain) == SchemaFilterChain__init__(_sorted_items(chain), <<>>)

\* ------------------------------------------------------------ the inputs
ByDate == <<"by-", "date">>
ByPubDate == <<"by-", "pub-date">>
Locations == <<"locations", "">>
Streets == <<"streets", "">>

\* The segments requests are made of.
Segs ==
  { Seg(ByDate, <<"2024-03-01", "2024-03-02">>),
    Seg(ByDate, <<"2024-3-1", "2024-03-01">>),
    Seg(ByDate, <<"">>),
    Seg(ByDate, <<"bad", "2024-03-01">>),
    Seg(ByPubDate, <<"2024-03-01", "2024-03-01">>),
    Seg(<<"by-", "kind">>, <<"k1">>),
    Seg(<<"by-", "kind">>, <<"">>),
    Seg(<<"by-", "kind">>, <<"nosuch">>),
    Seg(<<"by-", "cat">>, <<"">>),
    Seg(<<"by-", "flag">>, <<" yes">>),
    Seg(<<"by-", "flag">>, <<"">>),
    Seg(<<"by-", "flag">>, <<"maybe">>),
    Seg(<<"by-", "flag2">>, <<"no">>),
    Seg(<<"by-", "flag2">>, <<"">>),
    Seg(<<"by-", "txt">>, <<"foo", " bar">>),
    Seg(<<"by-", "txt">>, <<"">>),
    Seg(<<"by-", "txt2">>, <<"foo">>),
    Seg(<<"by-", "nosuch">>, <<"x">>),
    Seg(Locations, <<"zips">>),
    Seg(Locations, <<"zips", "z1">>),
    Seg(Locations, <<"zips", "nowhere">>),
    Seg(Locations, <<"empties">>),
    Seg(Locations, <<"">>),
    Seg(Streets, <<"main", "100-199", "8">>),
    Seg(Streets, <<"metro", "main", "100-199", "8">>),
    Seg(Streets, <<"main", "100-199">>),
    Seg(Streets, <<"main", "bad", "8">>),
    Seg(Streets, <<"main">>),
    Seg(<<"streets", "2">>, <<"main", "100-199", "8">>),
    Seg(<<"locations", "2">>, <<"zips", "z1">>),
    Seg(<<"by-", "date2">>, <<"2024-03-01", "2024-03-02">>),
    Seg(<<"foo", "">>, <<"bar">>),
    Seg(NoName, <<"x">>),
    NoEq("junk"),
    NoEq("filter"),
    EmptySeg }

\* The filters a caller builds and stores itself.
InsertSegs ==
  { Seg(ByDate, <<"2024-03-01", "2024-03-02">>),
    Seg(ByPubDate, <<"2024-03-01", "2024-03-01">>),
    Seg(<<"by-", "kind">>, <<"k1">>),
    Seg(<<"by-", "cat">>, <<"">>),
    Seg(<<"by-", "flag">>, <<" yes">>),
    Seg(<<"by-", "txt">>, <<"foo", " bar">>),
    Seg(<<"by-", "txt2">>, <<"foo">>),
    Seg(Locations, <<"zips", "z1">>),
    Seg(Streets, <<"main", "100-199", "8">>),
    Seg(Streets, <<"metro", "main", "100-199", "8">>) }

Argstrings == UNION {[1..n -> Segs] : n \in 1..MaxSegs}

\* The querysets a caller hands to apply() or has in context['newsitem_qs'].
BaseQs == <<Constraint("schema", "news", <<>>, 0, 0)>>
Querysets == {<<>>, BaseQs}

\* ------------------------------------------------------------- the state
VARIABLES
  chain,            \* the SchemaFilterChain of the request, as its items
  registry,         \* filter_sf_dict: the slugs it still holds
  context,          \* the shared context dict
  multiple_cities,  \* get_metro()['multiple_cities']
  outcome           \* what the last call returned or raised

vars == <<chain, registry, context, multiple_cities, outcome>>

\* The outcome of a call, with the fields a call does not set left blank:
\* the exception raised (or "none"), the descriptor, queryset or chain
\* returned, the item a __setitem__ was given, the queryset apply was given,
\* for validate and apply the receiver as it was before the call, and for a
\* from_request that raised the argstring it was given.
Outcome(op) ==
  [op |-> op, exc |-> "none", msg |-> "", url |-> "None", desc |-> NoDescriptor,
   queryset |-> <<>>, arg |-> <<>>, ret_chain |-> <<>>, visited |-> 0,
   calls |-> <<>>, taken |-> 0, at |-> NoPair, item |-> <<>>,
   before |-> <<>>, spec |-> <<>>]

NewContext == [filters |-> "unset", newsitem_qs |-> BaseQs, place |-> <<>>]

Init ==
  /\ chain = <<>>
  /\ registry = FieldSlugs
  /\ context = NewContext
  /\ multiple_cities \in BOOLEAN
  /\ outcome = Outcome("new")

\* SchemaFilterChain.from_request(request, context, argstring, filter_sf_dict),
\* called once per request, on the request's fresh registry and context.
FromSpec ==
  /\ outcome.op = "new"
  /\ chain = <<>>
  /\ \E argstring \in Argstrings :
       LET r == from_request(argstring, registry, context.newsitem_qs, multiple_cities) IN
       /\ chain' = r.chain
       /\ registry' = r.registry
       /\ context' = [context EXCEPT !.filters = "chain"]
       /\ outcome' = [Outcome("from_request") EXCEPT
                        !.exc = r.exc, !.msg = r.msg, !.url = r.url,
                        !.ret_chain = IF r.exc = "none" THEN r.chain ELSE <<>>,
                        !.taken = r.taken, !.at = r.at,
                        !.spec = IF r.exc = "none" THEN <<>> ELSE argstring]
  /\ UNCHANGED multiple_cities

\* chain[key] = SomeFilter(request, context, qs, *args): a filter built by
\* the caller and stored under its usual key. A caller fills its chain
\* before it validates or applies it.
Insert(seg) ==
  LET built == Construct(seg.name, NonEmpty(MapStrip(seg.vals)), context.newsitem_qs,
                         multiple_cities)
  IN
  /\ outcome.op \in {"new", "setitem"}
  /\ built.exc = "none"
  /\ Len(chain) < MaxChain \/ has_key(chain, KeyOf(built.filt))
  /\ LET set == __setitem__(chain, KeyOf(built.filt), built.filt) IN
     /\ chain' = set.chain
     /\ outcome' = [Outcome("setitem") EXCEPT !.exc = set.exc, !.msg = set.msg,
                                            !.item = <<Item(KeyOf(built.filt), built.filt)>>]
  /\ UNCHANGED <<registry, context, multiple_cities>>

\* chain.validate()
Validate ==
  /\ LET r == validate(chain) IN
     /\ chain' = r.chain
     /\ outcome' = [Outcome("validate") EXCEPT
                      !.exc = r.exc, !.msg = r.msg, !.desc = r.desc,
                      !.visited = r.visited, !.before = chain]
  /\ UNCHANGED <<registry, context, multiple_cities>>

\* chain.apply(queryset)
Apply(queryset) ==
  /\ LET r == apply(chain, context, queryset) IN
     /\ chain' = r.chain
     /\ context' = r.context
     /\ outcome' = [Outcome("apply") EXCEPT
                      !.exc = r.exc, !.msg = r.msg, !.arg = queryset,
                      !.queryset = IF r.exc = "none" THEN r.queryset ELSE <<>>,
                      !.calls = r.calls, !.before = chain]
  /\ UNCHANGED <<registry, multiple_cities>>

\* chain.normalized_clone()
NormalizedClone ==
  /\ LET r == normalized_clone(chain) IN
     outcome' = [Outcome("normalized_clone") EXCEPT
                   !.exc = r.exc, !.msg = r.msg, !.ret_chain = r.chain]
  /\ UNCHANGED <<chain, registry, context, multiple_cities>>

\* The next request: a new chain, a fresh registry and a fresh context.
NewRequest ==
  /\ outcome.op # "new"
  /\ chain' = <<>>
  /\ registry' = FieldSlugs
  /\ context' = NewContext
  /\ outcome' = Outcome("new")
  /\ UNCHANGED multiple_cities

Next ==
  \/ FromSpec
  \/ \E seg \in InsertSegs : Insert(seg)
  \/ Validate
  \/ \E queryset \in Querysets : Apply(queryset)
  \/ NormalizedClone
  \/ NewRequest

Spec == Init /\ [][Next]_vars

\* ================================================================ claims
\* The items of the chain that from_request had stored before the pair it
\* stopped at.
EarlierItems == SubSeq(chain, 1, outcome.taken - 1)

\* from_request stopped at a pair that builds a filter (its field slug, if
\* any, still in the registry) whose key an earlier segment's filter holds.
StoppedAtCollision ==
  LET at == outcome.at
      isField == at.argname[1] = "by-" /\ at.argname[2] \notin {"date", "pub-date"}
      built == Construct(at.argname, NonEmpty(at.argvalues), BaseQs, multiple_cities)
  IN /\ outcome.op = "from_request"
     /\ at # NoPair
     /\ outcome.taken - 1 <= Len(chain)
     /\ built.exc = "none"
     /\ isField => \A i \in 1..Len(EarlierItems) : EarlierItems[i].filt.sf # at.argname[2]
     /\ has_key(EarlierItems, KeyOf(built.filt))

C1_State ==
  /\ \A i, j \in 1..Len(chain) : chain[i].key = chain[j].key => i = j
  /\ (outcome.op = "from_request" /\ outcome.exc = "none") => Len(chain) = outcome.taken
  /\ StoppedAtCollision => (outcome.exc = "DuplicateFilterError" /\ chain = EarlierItems)

C1_Step ==
  (outcome'.op = "setitem" /\ has_key(chain, outcome'.item[1].key))
    => (outcome'.exc = "DuplicateFilterError" /\ chain' = chain)

\* C1: storing a filter under a key the chain already holds raises
\* DuplicateFilterError and leaves the chain as it was, for a direct
\* chain[key] = filter and for from_request on a spec whose segments map two
\* filters to one key; no key is ever held twice and no filter is overwritten.
C1_DuplicateInsert == [](C1_State) /\ [][C1_Step]_vars

C1_Witness ==
  /\ outcome.op = "from_request"
  /\ outcome.exc = "DuplicateFilterError"
  /\ outcome.at.argname = Streets
  /\ Len(chain) = 1
  /\ chain[1].filt.cls = "LocationFilter"

\* A filter built without its value: validate() asks for more input.
Incomplete(f) == f.got_args = "False"

\* C2: on the chain from_request builds from 'by-<boolfield>=' the filter is
\* incomplete and validate() returns, without raising, the descriptor whose
\* lookup_list is yes/Yes, no/No, na/N/A in that order.
C2_BoolPrompt ==
  (/\ outcome.op = "validate"
   /\ Len(outcome.before) = 1
   /\ outcome.before[1].filt.cls = "BoolFilter"
   /\ outcome.before[1].key = "lookup"
   /\ context.filters = "chain"
   /\ Incomplete(outcome.before[1].filt))
  => (/\ outcome.exc = "none"
      /\ ~outcome.desc.empty
      /\ outcome.desc.lookup_list = BoolLookupList)

\* from_request stopped at 'by-<slug>=<value>' for a lookup field that is in
\* the registry and a value that names one of its lookups.
StoppedAtLookupValue ==
  LET at == outcome.at
      vals == NonEmpty(at.argvalues)
  IN /\ outcome.op = "from_request"
     /\ outcome.exc # "none"
     /\ at.argname[1] = "by-"
     /\ at.argname[2] \in FieldSlugs
     /\ SchemaField(at.argname[2]).type = "lookup"
     /\ vals # <<>>
     /\ vals[1] \in SeqRange(LookupsOf(at.argname[2]))
     /\ \A i \in 1..Len(EarlierItems) :
          /\ EarlierItems[i].filt.sf # at.argname[2]
          /\ EarlierItems[i].key # SchemaField(at.argname[2]).name

\* C3: from_request does not fail at 'by-<slug>=<value>' for a registered
\* lookup field and an existing lookup value, and the chain it returns holds
\* the complete LookupFilter under the field's name.
C3_LookupStored ==
  /\ ~StoppedAtLookupValue
  /\ (outcome.op = "from_request" /\ outcome.exc = "none") =>
       \A i \in 1..Len(chain) :
         chain[i].filt.cls = "LookupFilter" =>
           chain[i].key = SchemaField(chain[i].filt.sf).name

\* The position of the first incomplete filter of a chain (0 if none).
RECURSIVE FirstIncompleteFrom(_, _)
FirstIncompleteFrom(c, i) ==
  IF i > Len(c) THEN 0
  ELSE IF Incomplete(c[i].filt) THEN i ELSE FirstIncompleteFrom(c, i + 1)

FirstIncomplete(c) == FirstIncompleteFrom(c, 1)

IncompleteCount(c) == Cardinality({i \in 1..Len(c) : Incomplete(c[i].filt)})

\* C4: validate() on a chain with two or more incomplete filters returns the
\* descriptor of the earliest one and consults no later filter (the earliest
\* being one that has candidates to offer); with no incomplete filter it
\* returns {}.
C4_FirstIncompleteOnly ==
  /\ (/\ outcome.op = "validate"
      /\ IncompleteCount(outcome.before) >= 2
      /\ Filter_validate(outcome.before[FirstIncomplete(outcome.before)].filt).exc = "none")
     => (/\ outcome.exc = "none"
         /\ outcome.visited = FirstIncomplete(outcome.before)
         /\ outcome.desc =
              Filter_validate(outcome.before[FirstIncomplete(outcome.before)].filt).desc)
  /\ (outcome.op = "validate" /\ IncompleteCount(outcome.before) = 0)
     => (outcome.exc = "none" /\ outcome.desc.empty)

\* from_request stopped in the constructor of the pair in hand.
StoppedInConstructor ==
  /\ outcome.op = "from_request"
  /\ outcome.at # NoPair
  /\ outcome.exc = "FilterError"
  /\ outcome.msg # "Invalid SchemaField slug"

\* The pair in hand names a date, lookup, boolean or location filter and
\* gives it no value at all.
AtValueless ==
  LET at == outcome.at IN
  /\ NonEmpty(at.argvalues) = <<>>
  /\ \/ at.argname \in {ByDate, ByPubDate}
     \/ at.argname = Locations
     \/ /\ at.argname[1] = "by-"
        /\ at.argname[2] \in FieldSlugs
        /\ SchemaField(at.argname[2]).type \in {"lookup", "bool"}

\* C5 as claimed: building a date, published-date, lookup, boolean or
\* location filter whose arguments are absent never raises.
C5_NoConstructionError == ~(StoppedInConstructor /\ AtValueless)

\* The pair in hand names a lookup or boolean field and gives no value, or
\* names a location type and gives no location.
AtDeferrable ==
  LET at == outcome.at
      vals == NonEmpty(at.argvalues)
  IN \/ /\ at.argname[1] = "by-"
        /\ at.argname[2] \in FieldSlugs
        /\ SchemaField(at.argname[2]).type \in {"lookup", "bool"}
        /\ vals = <<>>
     \/ at.argname = Locations /\ Len(vals) = 1

\* C5 as amended: a lookup or boolean filter without a value and a location
\* filter with a type but no location are built without error, incomplete,
\* and their own validate() asks for the value; a date or published-date
\* filter without its two dates and a location filter without any argument
\* raise FilterError in the constructor.
C5_DeferredOrRaised ==
  /\ ~(StoppedInConstructor /\ AtDeferrable)
  /\ \A i \in 1..Len(chain) :
       LET f == chain[i].filt IN
       /\ f.cls \in {"DateFilter", "PubDateFilter"} => ~Incomplete(f) /\ f.start_date > 0
       /\ f.cls = "LocationFilter" => f.location_type_slug # "unset"
       /\ (f.cls = "LookupFilter" /\ f.look = "None") => Incomplete(f)
       /\ (f.cls = "BoolFilter" /\ f.real_val = "unset") => Incomplete(f)
       /\ (f.cls = "LocationFilter" /\ f.loc_name = "unset") => Incomplete(f)
       /\ (Incomplete(f) /\ Filter_validate(f).exc = "none") => ~Filter_validate(f).desc.empty
  /\ (/\ outcome.op = "from_request"
      /\ outcome.at.argname \in {ByDate, ByPubDate, Locations}
      /\ NonEmpty(outcome.at.argvalues) = <<>>)
     => (outcome.exc = "FilterError" /\ Len(chain) = outcome.taken - 1)

C5_Witness ==
  /\ outcome.op = "from_request"
  /\ outcome.exc = "none"
  /\ Len(chain) = 2
  /\ chain[1].filt.cls = "LookupFilter" /\ Incomplete(chain[1].filt)
  /\ chain[2].filt.cls = "LocationFilter" /\ Incomplete(chain[2].filt)

\* The cost class the spec gives each variant: date family, boolean,
\* location/block, lookup, text search.
ClassRank(cls) ==
  CASE cls \in {"DateFilter", "PubDateFilter"} -> 1
    [] cls = "BoolFilter" -> 2
    [] cls \in {"LocationFilter", "BlockFilter"} -> 3
    [] cls = "LookupFilter" -> 4
    [] OTHER -> 5

PosOf(c, key) == CHOOSE i \in 1..Len(c) : c[i].key = key

\* C6: normalized_clone returns a chain with exactly the receiver's (key,
\* filter) items, ascending by _sort_value, equal weights in the receiver's
\* order: date family, then boolean, then location/block, then lookup, then
\* text search.
C6_NormalizedOrder ==
  outcome.op = "normalized_clone" =>
    LET ret == outcome.ret_chain IN
    /\ outcome.exc = "none"
    /\ Len(ret) = Len(chain)
    /\ \A i \in 1..Len(chain) : \E j \in 1..Len(ret) : ret[j] = chain[i]
    /\ \A i, j \in 1..Len(ret) :
         i < j => /\ _sort_value(ret[i].filt.cls) <= _sort_value(ret[j].filt.cls)
                  /\ ClassRank(ret[i].filt.cls) <= ClassRank(ret[j].filt.cls)
    /\ \A i, j \in 1..Len(chain) :
         (i < j /\ ClassRank(chain[i].filt.cls) = ClassRank(chain[j].filt.cls))
           => PosOf(ret, chain[i].key) < PosOf(ret, chain[j].key)

C6_Witness ==
  /\ outcome.op = "normalized_clone"
  /\ Len(chain) = 3
  /\ chain[1].filt.cls = "TextSearchFilter"
  /\ chain[2].filt.cls = "DateFilter"
  /\ chain[3].filt.cls = "TextSearchFilter"
  /\ Keys(outcome.ret_chain) = <<"date", chain[1].key, chain[3].key>>

\* The chain holding the receiver's items in another insertion order.
Permuted(c, f) == [i \in 1..Len(c) |-> c[f[i]]]

\* C7: normalized_clone gives the same key order for every insertion order
\* of the receiver's filters, filters of equal _sort_value included.
C7_OrderDeterminism ==
  outcome.op = "normalized_clone" =>
    \A f \in Permutations(1..Len(chain)) :
      Keys(normalized_clone(Permuted(chain, f)).chain) = Keys(outcome.ret_chain)

Weights(c) == [i \in 1..Len(c) |-> _sort_value(c[i].filt.cls)]

\* C7 as amended: for every insertion order of the receiver's filters
\* normalized_clone gives the same sequence of sort weights, and so the same
\* key order for filters of different weight; filters of equal weight keep
\* the order in which that chain had them.
C7_OrderUpToTies ==
  outcome.op = "normalized_clone" =>
    \A f \in Permutations(1..Len(chain)) :
      LET p == Permuted(chain, f)
          r == normalized_clone(p).chain
      IN
      /\ Weights(r) = Weights(outcome.ret_chain)
      /\ \A i \in 1..Len(r) :
           /\ \E j \in 1..Len(chain) : chain[j] = r[i]
           /\ (\A j \in 1..Len(r) : j # i => Weights(r)[j] # Weights(r)[i])
                => r[i] = outcome.ret_chain[i]
      /\ \A i, j \in 1..Len(p) :
           (i < j /\ _sort_value(p[i].filt.cls) = _sort_value(p[j].filt.cls))
             => PosOf(r, p[i].key) < PosOf(r, p[j].key)

C7_Witness ==
  /\ outcome.op = "normalized_clone"
  /\ Len(chain) = 3
  /\ chain[1].filt.cls = "LookupFilter"
  /\ chain[2].filt.cls = "LookupFilter"
  /\ chain[3].filt.cls = "DateFilter"
  /\ outcome.ret_chain[1].filt.cls = "DateFilter"

\* The queryset operation each class applies.
ConstraintOp(cls) ==
  CASE cls \in {"DateFilter", "PubDateFilter"} -> "filter"
    [] cls \in {"BoolFilter", "LookupFilter"} -> "by_attribute"
    [] cls \in {"LocationFilter", "BlockFilter"} -> "place"
    [] OTHER -> "text_search"

IsPlaceFilter(f) == f.cls \in {"LocationFilter", "BlockFilter"}

\* Call i put exactly one constraint, of the filter's kind, on the queryset
\* it was given.
NarrowedOnce(call, cls) ==
  /\ Len(call.qs_out) = Len(call.qs_in) + 1
  /\ SubSeq(call.qs_out, 1, Len(call.qs_in)) = call.qs_in
  /\ call.qs_out[Len(call.qs_out)].op = ConstraintOp(cls)

CannotApply(f) == Filter_apply(f, NewContext).exc # "none"

ConstraintArgs(f) ==
  [cls |-> f.cls, sf |-> f.sf, start_date |-> f.start_date, end_date |-> f.end_date,
   query |-> f.query, real_val |-> f.real_val, look |-> f.look,
   location_type_slug |-> f.location_type_slug, loc_name |-> f.loc_name,
   city_slug |-> f.city_slug, street_slug |-> f.street_slug,
   block_range |-> f.block_range, block_radius |-> f.block_radius]

\* Parsing the filter's url and dispatching the pair builds a filter of the
\* same class, key and constraint arguments.
RoundTrip(key, f) ==
  LET parsed == ParseArgstring(<<Seg(f.url.name, f.url.vals)>>) IN
  /\ parsed.exc = "none"
  /\ Len(parsed.args) = 1
  /\ LET built == Construct(parsed.args[1].argname, NonEmpty(parsed.args[1].argvalues),
                            f.qs, multiple_cities)
     IN /\ built.exc = "none"
        /\ KeyOf(built.filt) = key
        /\ ConstraintArgs(built.filt) = ConstraintArgs(f)

\* C10: every complete filter's url, parsed and dispatched again, gives a
\* filter of the same variant, key and constraint arguments, in single-city
\* and multi-city metros.
C10_RoundTrip ==
  \A i \in 1..Len(chain) :
    (chain[i].filt.url.state = "str" /\ ~Incomplete(chain[i].filt))
      => RoundTrip(chain[i].key, chain[i].filt)

\* The days a record can be dated.
Days == 0..5

\* A record dated d passes the constraint qs.filter(<field>__gte=lo, <field>__lt=hi).
Admits(c, d) == c.lo <= d /\ d < c.hi

\* The date filters that the last apply() applied, by position.
AppliedDates ==
  {i \in 1..Len(outcome.calls) :
     /\ outcome.calls[i].exc = "none"
     /\ outcome.before[i].filt.cls \in {"DateFilter", "PubDateFilter"}}

\* C11: a date or published-date filter built with start date s and end date
\* e puts on its date field the constraint s <= d < e + 1: a record dated e
\* is kept, one dated e + 1 is not, and with s = e exactly that day passes.
C11_DateInclusive ==
  /\ \A i \in 1..Len(chain) :
       LET f == chain[i].filt IN
       f.cls \in {"DateFilter", "PubDateFilter"} =>
         /\ f.kw_gte = f.start_date
         /\ f.kw_lt = f.end_date + 1
         /\ f.kw_field = (IF f.cls = "PubDateFilter" THEN "pub_date" ELSE "item_date")
         /\ f.start_date = DateOrd(f.url.vals[1])
         /\ f.end_date = DateOrd(f.url.vals[2])
  /\ outcome.op = "apply" =>
       \A i \in AppliedDates :
         LET f == outcome.before[i].filt
             out == outcome.calls[i].qs_out
             c == out[Len(out)]
         IN /\ c.op = "filter"
            /\ c.target = f.kw_field
            /\ \A d \in Days : Admits(c, d) <=> (f.start_date <= d /\ d <= f.end_date)
            /\ Admits(c, f.end_date) = (f.start_date <= f.end_date)
            /\ ~Admits(c, f.end_date + 1)
            /\ f.start_date = f.end_date => {d \in Days : Admits(c, d)} = {f.start_date}

C11_Witness ==
  /\ outcome.op = "apply"
  /\ outcome.exc = "none"
  /\ \E i \in AppliedDates :
       /\ outcome.before[i].filt.cls = "PubDateFilter"
       /\ outcome.before[i].filt.start_date = 1
       /\ outcome.before[i].filt.end_date = 1
       /\ outcome.calls[i].qs_out[Len(outcome.calls[i].qs_out)].hi = 2

\* from_request stopped at a 'streets=' pair.
StoppedAtStreets == outcome.op = "from_request" /\ outcome.at.argname[1] = "streets"

\* The arguments a block filter takes before its radius: city (in a metro of
\* several cities), street, block range.
BlockNeed == IF multiple_cities THEN 3 ELSE 2

\* C12: the street-block constructor takes its arguments by position; when
\* they run out before the block range is filled (city, street or range
\* missing) it raises FilterError "not enough args" without a url; when only
\* the radius is left unfilled it raises FilterError "missing radius" with
\* the redirect url; with a radius and a block range that does not match it
\* raises "Invalid block URL" without a url; no other failure of
\* from_request carries a url.
C12_BlockFailureClasses ==
  /\ StoppedAtStreets =>
       LET vals == NonEmpty(outcome.at.argvalues) IN
       /\ Len(vals) < BlockNeed =>
            (outcome.exc = "FilterError" /\ outcome.msg = "not enough args"
             /\ outcome.url = "None")
       /\ Len(vals) = BlockNeed =>
            (outcome.exc = "FilterError" /\ outcome.msg = "missing radius"
             /\ outcome.url = radius_url /\ outcome.url # "None")
       /\ (Len(vals) > BlockNeed /\ BlockUrlGroups(vals[BlockNeed]) = <<>>) =>
            (outcome.exc = "FilterError" /\ outcome.msg = "Invalid block URL"
             /\ outcome.url = "None")
       /\ (Len(vals) > BlockNeed /\ BlockUrlGroups(vals[BlockNeed]) # <<>>) =>
            (outcome.exc = "DuplicateFilterError" /\ outcome.url = "None")
  /\ (outcome.op = "from_request" /\ outcome.url # "None") =>
       (/\ StoppedAtStreets
        /\ outcome.msg = "missing radius"
        /\ Len(NonEmpty(outcome.at.argvalues)) = BlockNeed)
  /\ outcome.op # "from_request" => outcome.url = "None"
  /\ \A i \in 1..Len(chain) :
       chain[i].filt.cls = "BlockFilter" =>
         /\ chain[i].filt.block_radius # "unset"
         /\ chain[i].filt.url_to_block_args # <<>>
         /\ chain[i].filt.city_slug = "" <=> ~multiple_cities

C12_Witness ==
  /\ StoppedAtStreets
  /\ multiple_cities
  /\ outcome.at.argvalues = <<"main", "100-199">>
  /\ outcome.msg = "not enough args"
  /\ outcome.url = "None"
  /\ Len(chain) = 1

\* A from_request that raised, on the request's fresh registry.
FromSpecFailed == outcome.op = "from_request" /\ outcome.exc # "none"

\* The (argname, argvalues) pairs of the argstring's segments that have an
\* equals sign and a name, in order.
RECURSIVE PairsOf(_)
PairsOf(segs) ==
  IF segs = <<>> THEN <<>>
  ELSE IF Head(segs).eq /\ Head(segs).name # NoName
       THEN <<[argname |-> Head(segs).name, argvalues |-> MapStrip(Head(segs).vals)]>>
              \o PairsOf(Tail(segs))
       ELSE PairsOf(Tail(segs))

HasNoEq(segs) == \E i \in 1..Len(segs) : ~segs[i].eq

\* The outcome of taking the segments strictly one after the other.
LeftToRight == FromRequestInterleaved(outcome.spec, FieldSlugs, BaseQs, multiple_cities)

\* C13 as claimed: a from_request that fails has failed with the error of
\* the leftmost offending segment, a segment without an equals sign
\* included, and has dispatched nothing to its right.
C13_LeftmostError ==
  FromSpecFailed =>
    /\ outcome.exc = LeftToRight.exc
    /\ outcome.msg = LeftToRight.msg
    /\ Len(chain) <= Len(LeftToRight.chain)

\* C13 as amended: a segment without an equals sign anywhere in the
\* argstring fails the call before any segment is dispatched; otherwise the
\* pairs are dispatched left to right, the call fails with the error of the
\* leftmost pair whose dispatch fails, the filters of all pairs to its left
\* are in the chain and no pair to its right has been dispatched.
C13_ParseThenDispatch ==
  FromSpecFailed =>
    LET pairs == PairsOf(outcome.spec)
        k == outcome.taken
    IN
    /\ HasNoEq(outcome.spec) =>
         /\ outcome.exc = "FilterError"
         /\ outcome.msg = "Invalid filter parameter, no equals sign"
         /\ k = 0 /\ chain = <<>> /\ registry = FieldSlugs
    /\ ~HasNoEq(outcome.spec) =>
         /\ k \in 1..Len(pairs)
         /\ outcome.at = pairs[k]
         /\ LET left == DispatchLoop(SubSeq(pairs, 1, k - 1), <<>>, FieldSlugs, BaseQs,
                                     multiple_cities, 0)
                here == DispatchLoop(<<pairs[k]>>, left.chain, left.registry, BaseQs,
                                     multiple_cities, k - 1)
            IN /\ left.exc = "none"
               /\ Len(left.chain) = k - 1
               /\ here.exc = outcome.exc /\ here.msg = outcome.msg
               /\ here.chain = chain /\ here.registry = registry
               /\ Len(chain) \in {k - 1, k}
               /\ SubSeq(chain, 1, k - 1) = left.chain
               /\ outcome.exc = LeftToRight.exc /\ outcome.msg = LeftToRight.msg

C13_Witness ==
  /\ FromSpecFailed
  /\ Len(outcome.spec) = 2
  /\ outcome.spec[1] = Seg(<<"by-", "nosuch">>, <<"x">>)
  /\ outcome.spec[2] = NoEq("junk")
  /\ outcome.msg = "Invalid filter parameter, no equals sign"
  /\ chain = <<>>

\* The registry slugs named by the 'by-' pairs of a list of pairs (the date
\* names are not field slugs).
FieldSlugsNamed(pairs) ==
  {pairs[i].argname[2] : i \in {n \in 1..Len(pairs) :
                                  /\ pairs[n].argname[1] = "by-"
                                  /\ pairs[n].argname \notin {ByDate, ByPubDate}}}

\* The attribute filters of a chain, by position.
AttrItems(c) == {i \in 1..Len(c) : c[i].filt.sf # "None"}

\* from_request stopped at a 'by-<slug>' pair whose slug is not in the
\* registry or was named by a pair to its left.
StoppedAtSpentSlug ==
  LET at == outcome.at IN
  /\ FromSpecFailed
  /\ at.argname[1] = "by-"
  /\ at.argname \notin {ByDate, ByPubDate}
  /\ \/ at.argname[2] \notin FieldSlugs
     \/ at.argname[2] \in
          FieldSlugsNamed(SubSeq(PairsOf(outcome.spec), 1, outcome.taken - 1))

\* C14: from_request removes the registry entry of every 'by-<slug>' pair it
\* dispatches, so no two filters of the chain come from one entry; a
\* 'by-<slug>' whose entry is absent or already removed fails with
\* FilterError "Invalid SchemaField slug", not DuplicateFilterError; after a
\* call that succeeds the registry is the initial one minus exactly the
\* slugs the chain's attribute filters were built from.
C14_RegistryConsumed ==
  /\ registry \subseteq FieldSlugs
  /\ \A i, j \in AttrItems(chain) :
       (context.filters = "chain" /\ chain[i].filt.sf = chain[j].filt.sf) => i = j
  /\ (outcome.op = "from_request" /\ outcome.exc = "none") =>
       /\ registry = FieldSlugs \ {chain[i].filt.sf : i \in AttrItems(chain)}
       /\ Cardinality(registry) = Cardinality(FieldSlugs) - Cardinality(AttrItems(chain))
  /\ StoppedAtSpentSlug =>
       /\ outcome.exc = "FilterError"
       /\ outcome.msg = "Invalid SchemaField slug"
       /\ Len(chain) = outcome.taken - 1
  /\ (FromSpecFailed /\ ~HasNoEq(outcome.spec)) =>
       registry = FieldSlugs \ FieldSlugsNamed(SubSeq(PairsOf(outcome.spec), 1, outcome.taken))

C14_Witness ==
  /\ StoppedAtSpentSlug
  /\ outcome.at.argname = <<"by-", "flag">>
  /\ Len(chain) = 1
  /\ chain[1].filt.sf = "flag"
  /\ outcome.msg = "Invalid SchemaField slug"
  /\ registry = FieldSlugs \ {"flag"}

\* The variant the dispatch rules give an argument name: the two date names,
\* then the 'by-' prefix, then 'streets', then 'locations'.
RuleOf(argname) ==
  CASE argname = ByDate -> "date"
    [] argname = ByPubDate -> "pub-date"
    [] argname \notin {ByDate, ByPubDate} /\ argname[1] = "by-" -> "registry"
    [] argname[1] = "streets" -> "block"
    [] argname[1] = "locations" -> "location"
    [] OTHER -> "none"

\* The classes each rule builds, and the failures it can end in.
RuleClasses(rule) ==
  CASE rule = "date" -> {"DateFilter"}
    [] rule = "pub-date" -> {"PubDateFilter"}
    [] rule = "registry" -> {"LookupFilter", "BoolFilter", "TextSearchFilter"}
    [] rule = "block" -> {"BlockFilter"}
    [] rule = "location" -> {"LocationFilter"}
    [] OTHER -> {}

RuleErrors(rule) ==
  CASE rule \in {"date", "pub-date"} -> {"Missing or invalid date range"}
    [] rule = "registry" -> {"Invalid SchemaField slug", "No such lookup",
                             "Invalid boolean arg", "Invalid boolean value",
                             "Text search lookup requires search params",
                             "lookup_descriptions"}
    [] rule = "block" -> {"not enough args", "missing radius", "Invalid block URL"}
    [] rule = "location" -> {"not enough args"}
    [] OTHER -> {"Invalid filter type"}

\* The named segments requests are made of.
NamedSegs == {seg \in Segs : seg.eq /\ seg.name # NoName}

\* C15: a pair is dispatched by the first rule its name meets: 'by-date' and
\* 'by-pub-date' exactly give the date filters, any other 'by-<slug>' goes to
\* the registry entry <slug> and its field type's filter, 'streets...' gives
\* a block filter, 'locations...' a location filter; any other name fails
\* with FilterError "Invalid filter type" and stores no filter.
C15_DispatchRules ==
  /\ \A seg \in NamedSegs :
       LET built == Construct(seg.name, NonEmpty(MapStrip(seg.vals)), BaseQs, multiple_cities)
           rule == RuleOf(seg.name)
       IN /\ built.exc = "none" => built.filt.cls \in RuleClasses(rule)
          /\ built.exc # "none" => (built.exc = "FilterError" /\ built.msg \in RuleErrors(rule))
          /\ (rule = "registry" /\ built.exc = "none") =>
               /\ built.filt.sf = seg.name[2]
               /\ built.filt.cls =
                    (CASE SchemaField(seg.name[2]).type = "lookup" -> "LookupFilter"
                       [] SchemaField(seg.name[2]).type = "bool" -> "BoolFilter"
                       [] OTHER -> "TextSearchFilter")
          /\ rule = "none" => built.exc # "none"
  /\ (FromSpecFailed /\ outcome.at # NoPair) =>
       LET rule == RuleOf(outcome.at.argname) IN
       /\ outcome.exc # "DuplicateFilterError" => outcome.msg \in RuleErrors(rule)
       /\ rule = "none" =>
            /\ outcome.exc = "FilterError"
            /\ outcome.msg = "Invalid filter type"
            /\ Len(chain) = outcome.taken - 1
            /\ registry = FieldSlugs \ {chain[i].filt.sf : i \in AttrItems(chain)}
       /\ (rule = "registry" /\ outcome.at.argname[2] \notin FieldSlugs) =>
            outcome.msg = "Invalid SchemaField slug"
  /\ (outcome.op = "from_request" /\ outcome.exc = "none") =>
       /\ Len(chain) = outcome.taken
       /\ \A i \in 1..Len(chain) :
            chain[i].key = KeyOf(chain[i].filt)

C15_Witness ==
  /\ FromSpecFailed
  /\ outcome.at.argname = <<"foo", "">>
  /\ outcome.msg = "Invalid filter type"
  /\ outcome.taken = 2
  /\ Len(chain) = 1
  /\ chain[1].filt.cls = "PubDateFilter"

\* The last call was validate() on a chain whose first incomplete filter is
\* a location filter.
ValidatedLocationFirst ==
  /\ outcome.op = "validate"
  /\ FirstIncomplete(outcome.before) > 0
  /\ outcome.before[FirstIncomplete(outcome.before)].filt.cls = "LocationFilter"

\* C16: validate() on a chain whose first incomplete filter is a location
\* filter raises FilterError when the location type has no public location,
\* and otherwise returns the descriptor whose lookup_list is the type's
\* public locations in display order; either way the chain keeps its keys,
\* filters and order.
C16_EmptyCandidates ==
  ValidatedLocationFirst =>
    LET k == FirstIncomplete(outcome.before)
        f == outcome.before[k].filt
        locs == PublicLocations(f.location_type_slug)
    IN
    /\ chain = outcome.before
    /\ Keys(chain) = Keys(outcome.before)
    /\ outcome.visited = k
    /\ locs = <<>> =>
         /\ outcome.exc = "FilterError"
         /\ outcome.msg = "empty lookup list"
         /\ outcome.desc.empty
    /\ locs # <<>> =>
         /\ outcome.exc = "none"
         /\ ~outcome.desc.empty
         /\ outcome.desc.filter_argname = Locations
         /\ outcome.desc.lookup_type_slug = f.location_type_slug
         /\ Len(outcome.desc.lookup_list) = Len(locs)
         /\ \A i \in 1..Len(locs) : outcome.desc.lookup_list[i].slug = locs[i]

C16_Witness ==
  /\ ValidatedLocationFirst
  /\ Len(outcome.before) = 2
  /\ FirstIncomplete(outcome.before) = 2
  /\ outcome.before[2].filt.location_type_slug = "empties"
  /\ outcome.exc = "FilterError"
  /\ chain = outcome.before

\* The last call was validate() on a chain from_request built, and the
\* chain's first incomplete filter has an argname starting with 'by-' and a
\* descriptor to return.
ValidatedByFilterFirst ==
  /\ outcome.op = "validate"
  /\ context.filters = "chain"
  /\ FirstIncomplete(outcome.before) > 0
  /\ LET f == outcome.before[FirstIncomplete(outcome.before)].filt IN
     /\ f.argname[1] = "by-"
     /\ Filter_validate(f).exc = "none"
     /\ ~Filter_validate(f).desc.empty

\* C17: when the first incomplete filter of a chain built by from_request
\* has an argname starting with 'by-', validate() returns its descriptor and
\* leaves that filter under the key 'lookup' and under no other key, every
\* other filter under its own key, and as many filters as before; also when
\* the chain holds a boolean filter under 'lookup' already.
C17_RekeyToLookup ==
  ValidatedByFilterFirst =>
    LET k == FirstIncomplete(outcome.before)
        b == outcome.before
    IN
    /\ outcome.exc = "none"
    /\ outcome.desc = Filter_validate(b[k].filt).desc
    /\ Len(chain) = Len(b)
    /\ \E i \in 1..Len(chain) : chain[i] = Item("lookup", b[k].filt)
    /\ \A i \in 1..Len(chain) : chain[i].filt = b[k].filt => chain[i].key = "lookup"
    /\ \A j \in 1..Len(b) : j # k => \E i \in 1..Len(chain) : chain[i] = b[j]

\* The argstring without its empty trailing segments: 'S;;' without the
\* ';;'.
RECURSIVE Stem(_)
Stem(segs) ==
  IF segs # <<>> /\ segs[Len(segs)] = EmptySeg
  THEN Stem(SubSeq(segs, 1, Len(segs) - 1))
  ELSE segs

\* The argstring is a valid one followed by one or more ';'.
ValidWithTrailing(segs) ==
  /\ Stem(segs) # <<>>
  /\ Stem(segs) # segs
  /\ from_request(Stem(segs), FieldSlugs, BaseQs, multiple_cities).exc = "none"

\* C18: from_request does not fail on a valid argstring followed by ';'
\* delimiters (it builds the chain of the argstring without them), and on
\* the empty argstring or 'filter' it returns an empty chain without error
\* and with the registry untouched.
C18_TrailingIgnored ==
  /\ FromSpecFailed =>
       /\ ~ValidWithTrailing(outcome.spec)
       /\ outcome.spec \notin {EmptyArgstring, SentinelArgstring}
  /\ \A argstring \in {EmptyArgstring, SentinelArgstring} :
       LET r == from_request(argstring, registry, BaseQs, multiple_cities) IN
       r.exc = "none" /\ r.chain = <<>> /\ r.registry = registry
  /\ (outcome.op = "from_request" /\ outcome.exc = "none" /\ outcome.taken = 0) =>
       (chain = <<>> /\ registry = FieldSlugs)

\* A filter without the fields its apply() writes: its queryset and its
\* display fields.
Frame(f) ==
  [f EXCEPT !.qs = <<>>, !.label = Unset, !.value = Unset, !.short_value = Unset,
            !.url = UrlUnset, !.location_name = Unset]

SameStructure(c, d) ==
  /\ Keys(c) = Keys(d)
  /\ \A i \in 1..Len(c) : Frame(c[i].filt) = Frame(d[i].filt)

C19_Step ==
  /\ outcome'.op = "normalized_clone" =>
       (chain' = chain /\ context' = context /\ registry' = registry)
  /\ outcome'.op = "apply" =>
       /\ SameStructure(chain', chain)
       /\ outcome'.before = chain
       /\ registry' = registry
       /\ context'.filters = context.filters

\* C19: normalized_clone() leaves the receiver as it was, and apply(),
\* returning or raising, leaves the receiver's keys, their order and the
\* filter under each key, changing only the filters' querysets and display
\* fields, the shared context's place and queryset, and nothing of the
\* registry.
C19_ReceiverKept == [][C19_Step]_vars

C19_Witness ==
  /\ outcome.op = "apply"
  /\ outcome.exc # "none"
  /\ Len(chain) = 3
  /\ Len(outcome.calls) = 3
  /\ chain # outcome.before
  /\ SameStructure(chain, outcome.before)
  /\ Keys(chain) # Keys(_sorted_items(chain))

\* The filter's label, value, short_value and url are all strings (not
\* None, not missing).
Finalized(f) ==
  /\ f.label.state = "str"
  /\ f.value.state = "str"
  /\ f.short_value.state = "str"
  /\ f.url.state = "str"

\* C20: after an apply() that returns, every filter of the chain has its
\* label, value, short_value and url set, whatever its class; boolean,
\* location and block filters come out of their constructors without a
\* label and a url.
C20_Finalized ==
  /\ (outcome.op = "apply" /\ outcome.exc = "none") =>
       \A i \in 1..Len(chain) : Finalized(chain[i].filt)
  /\ \A seg \in NamedSegs :
       LET built == Construct(seg.name, NonEmpty(MapStrip(seg.vals)), BaseQs, multiple_cities) IN
       (built.exc = "none" /\ built.filt.cls \in {"BoolFilter", "LocationFilter", "BlockFilter"})
         => (built.filt.label.state # "str" /\ built.filt.url.state # "str")

C20_Witness ==
  /\ outcome.op = "apply"
  /\ outcome.exc = "none"
  /\ context.filters = "chain"
  /\ Len(chain) = 2
  /\ outcome.before[1].filt.cls = "BoolFilter"
  /\ outcome.before[1].filt.label = None
  /\ outcome.before[2].filt.cls = "BlockFilter"
  /\ outcome.before[2].filt.url = UrlUnset
  /\ Finalized(chain[1].filt) /\ Finalized(chain[2].filt)

\* C21: a from_request that raised FilterError or DuplicateFilterError (a
\* parse, dispatch, construction or duplicate-filter error) has handed the
\* caller no chain holding the filters of the segments before the failing
\* one: it returned none, and the chain it put in context['filters'] is
\* empty.
C21_NoPartialChain ==
  (FromSpecFailed /\ outcome.exc \in {"FilterError", "DuplicateFilterError"}) =>
    /\ outcome.ret_chain = <<>>
    /\ context.filters = "chain" => chain = <<>>

\* A validate() that follows directly on a validate() that returned, on a
\* chain from_request built, returns too, and returns the same descriptor.
C22_Step ==
  (/\ outcome.op = "validate"
   /\ outcome.exc = "none"
   /\ context.filters = "chain"
   /\ outcome'.op = "validate")
  => (outcome'.exc = "none" /\ outcome'.desc = outcome.desc)

\* C22: two validate() calls in a row on a chain built by from_request give
\* the same result, and the second raises nothing, also when the first
\* returned the descriptor of an incomplete lookup filter.
C22_ValidateRepeatable == [][C22_Step]_vars

\* The last call was apply() on a chain that held an incomplete filter.
AppliedIncomplete == outcome.op = "apply" /\ FirstIncomplete(outcome.before) > 0

C24_RegistryKept ==
  (FromSpecFailed /\ outcome.exc \in {"FilterError", "DuplicateFilterError"})
    => registry = FieldSlugs

====
